---- MODULE Spec2Model ----
(***************************************************************************)
(* Model of the credit application (src/credit): the amortization          *)
(* calculator, the credit score engine, the eligibility decision and the   *)
(* two views check-eligibility and create-loan running against one         *)
(* database.                                                               *)
(*                                                                         *)
(* Representation.                                                         *)
(*  - Money is an integer number of cents (the DecimalFields have two      *)
(*    decimal places, _compute_emi quantizes to 0.01).                     *)
(*  - An interest rate is an integer number of hundredths of a percent     *)
(*    (DecimalField(max_digits=5, decimal_places=2)): 12% is 1200.         *)
(*  - An intermediate Decimal is an exact fraction <<n, d>> with d > 0.    *)
(*    On the values of this model the 28-digit Decimal context gives the   *)
(*    same quantized installment and the same truncated score as the exact *)
(*    fraction does.                                                       *)
(*  - A date is a day number; the calendar year of day d is d \div 365.    *)
(*  - An optional value is a sequence: None is <<>>, the value x is <<x>>. *)
(***************************************************************************)
EXTENDS Integers, Sequences, FiniteSets, TLC

None == <<>>

Some(x) == <<x>>

Val(o) == o[1]

----------------------------------------------------------------------------
(* Arithmetic on exact fractions.                                          *)

Abs(x) == IF x < 0 THEN -x ELSE x

Max(a, b) == IF a >= b THEN a ELSE b

Min(a, b) == IF a <= b THEN a ELSE b

RECURSIVE Gcd(_, _)
Gcd(a, b) == IF b = 0 THEN a ELSE Gcd(b, a % b)

RECURSIVE Pow(_, _)
Pow(b, e) == IF e = 0 THEN 1 ELSE b * Pow(b, e - 1)

\* The fraction n/d in lowest terms with a positive denominator (d # 0).
Frac(n, d) ==
    LET g == Gcd(Abs(n), Abs(d))
        s == IF d < 0 THEN -1 ELSE 1
    IN  <<(s * n) \div g, (s * d) \div g>>

FAdd(p, q) == Frac(p[1] * q[2] + q[1] * p[2], p[2] * q[2])

FSub(p, q) == Frac(p[1] * q[2] - q[1] * p[2], p[2] * q[2])

FMul(p, q) == Frac(p[1] * q[1], p[2] * q[2])

FLe(p, q) == p[1] * q[2] <= q[1] * p[2]

FMin(p, q) == IF FLe(p, q) THEN p ELSE q

FMax(p, q) == IF FLe(p, q) THEN q ELSE p

\* Decimal.quantize to an integer number of cents under the context's
\* ROUND_HALF_EVEN: the fraction n/d (d > 0) rounded to the nearest integer,
\* a tie going to the even one.
RoundHalfEven(n, d) ==
    LET a == Abs(n)
        q == a \div d
        r == a % d
        m == IF 2 * r > d THEN q + 1
             ELSE IF 2 * r < d THEN q
             ELSE IF q % 2 = 0 THEN q ELSE q + 1
    IN  IF n < 0 THEN -m ELSE m

\* int(x) of a Decimal: truncation toward zero.
PyInt(q) == IF q[1] >= 0 THEN q[1] \div q[2] ELSE -((-q[1]) \div q[2])

----------------------------------------------------------------------------
(* The amortization calculator.                                            *)

\* _compute_emi(principal, annual_rate, tenure_months), tenure_months >= 1:
\* r = annual_rate / 100 / 12 is the fraction a/b; with r # 0 the
\* installment principal * r * (1+r)^n / ((1+r)^n - 1) is
\* principal * a * (a+b)^n / (b * ((a+b)^n - b^n)).
_compute_emi(principal, annual_rate, tenure_months) ==
    LET r == Frac(annual_rate, 100 * 100 * 12)
        a == r[1]
        b == r[2]
        up == Pow(a + b, tenure_months)
        numerator == principal * a * up
        denominator == b * (up - Pow(b, tenure_months))
        emi == Frac(numerator, denominator)
    IN  IF a = 0
        THEN RoundHalfEven(principal, tenure_months)
        ELSE RoundHalfEven(emi[1], emi[2])

----------------------------------------------------------------------------
(* The credit score engine.                                                *)

DaysPerYear == 365

YearOf(day) == day \div DaysPerYear

RECURSIVE SumField(_, _)
SumField(rows, f) ==
    IF rows = {} THEN 0
    ELSE LET l == CHOOSE x \in rows : TRUE
         IN  l[f] + SumField(rows \ {l}, f)

\* The filter on the wrong date field.
ActiveLoansByStart(rows, day) == {l \in rows : l.start_date >= day}

\* loans.filter(end_date__gte=today)
ActiveLoans(rows, day) == {l \in rows : l.end_date >= day}

\* loans.filter(start_date__year=today.year).count()
RecentCount(rows, day) ==
    Cardinality({l \in rows : YearOf(l.start_date) = YearOf(day)})

\* sum(ratios) over the loans with a truthy tenure, each ratio being
\* min(emis_paid_on_time / tenure, 1).
RECURSIVE RatioSum(_)
RatioSum(rows) ==
    IF rows = {} THEN <<0, 1>>
    ELSE LET l == CHOOSE x \in rows : TRUE
             rest == RatioSum(rows \ {l})
         IN  IF l.tenure # 0
             THEN FAdd(FMin(Frac(l.emis_paid_on_time, l.tenure), <<1, 1>>), rest)
             ELSE rest

AvgPaidRatio(total_loans, rows) ==
    LET n == Cardinality({l \in rows : l.tenure # 0})
    IN  IF total_loans = 0 THEN <<1, 1>>
        ELSE IF n = 0 THEN <<1, 1>>
        ELSE FMul(RatioSum(rows), Frac(1, n))

LoanCountScore(total_loans) == FMul(Frac(Min(total_loans, 5), 5), <<20, 1>>)

\* The recency term without the first loan of the year left out.
RecentScoreNoGrace(recent) == Max(0, 20 - recent * 5)

\* max(0, 20 - max(0, recent - 1) * 5)
RecentScore(recent) == Max(0, 20 - Max(0, recent - 1) * 5)

VolumeScore(total_amount, approved_limit) ==
    LET volume_ratio == IF approved_limit # 0
                        THEN Frac(total_amount, approved_limit)
                        ELSE <<1, 1>>
    IN  FMax(<<0, 1>>,
             FMul(<<20, 1>>, FSub(<<1, 1>>, FMin(volume_ratio, <<1, 1>>))))

\* The sum returned as it is.
ClampMissing(q) == q

\* max(0, min(100, score))
Clamp(q) == FMax(<<0, 1>>, FMin(<<100, 1>>, q))

\* The value returned when the active loans exceed the approved limit.
GateScore == 0

\* The gate with >= in the place of >.
GateTripsInclusive(total_active_amount, approved_limit) ==
    total_active_amount >= approved_limit

\* if total_active_amount > customer.approved_limit
GateTrips(total_active_amount, approved_limit) ==
    total_active_amount > approved_limit

\* The active amount taken from the customer's current_debt.
ScoreFromCachedDebt(customer, qActive, qCount, qAll, qRecent) ==
    LET total_active_amount == customer.current_debt
        total_active_emi == SumField(qActive, "monthly_repayment")
        total_amount == SumField(qAll, "loan_amount")
        paid_score == FMul(AvgPaidRatio(qCount, qAll), <<30, 1>>)
        score == FAdd(FAdd(FAdd(FAdd(paid_score, LoanCountScore(qCount)),
                                <<RecentScore(qRecent), 1>>),
                           VolumeScore(total_amount, customer.approved_limit)),
                      <<10, 1>>)
    IN  [score |-> IF GateTrips(total_active_amount, customer.approved_limit)
                   THEN GateScore
                   ELSE PyInt(Clamp(score)),
         active_amount |-> total_active_amount,
         active_emi |-> total_active_emi]

\* _compute_credit_score(customer, loans).  The function sends four queries;
\* qActive, qCount, qAll and qRecent are their results: the active loans,
\* loans.count(), the loans, and the number of loans started this year.  The
\* last three are not sent, and not read here, when the gate trips.
_compute_credit_score(customer, qActive, qCount, qAll, qRecent) ==
    LET total_active_amount == SumField(qActive, "loan_amount")
        total_active_emi == SumField(qActive, "monthly_repayment")
        total_amount == SumField(qAll, "loan_amount")
        paid_score == FMul(AvgPaidRatio(qCount, qAll), <<30, 1>>)
        score == FAdd(FAdd(FAdd(FAdd(paid_score, LoanCountScore(qCount)),
                                <<RecentScore(qRecent), 1>>),
                           VolumeScore(total_amount, customer.approved_limit)),
                      <<10, 1>>)
    IN  [score |-> IF GateTrips(total_active_amount, customer.approved_limit)
                   THEN GateScore
                   ELSE PyInt(Clamp(score)),
         active_amount |-> total_active_amount,
         active_emi |-> total_active_emi]

\* _compute_credit_score on one consistent reading of the customer's loans.
ScoreOf(customer, rows, day) ==
    _compute_credit_score(customer, ActiveLoans(rows, day), Cardinality(rows),
                          rows, RecentCount(rows, day))

----------------------------------------------------------------------------
(* The eligibility decision.                                               *)

ReasonScoreZero == "credit score zero (active loans exceed limit)"

ReasonScoreTooLow == "credit score too low"

ReasonEmi == "emi exceeds 50% of monthly salary"

\* The slab with its first bound inclusive.
MinRateInclusive(score, requested_rate) ==
    IF score >= 50 THEN Some(requested_rate)
    ELSE IF score > 30 THEN Some(1200)
    ELSE IF score > 10 THEN Some(1600)
    ELSE None

\* The slab: the minimum rate for a score, None where the request is refused.
MinRate(score, requested_rate) ==
    IF score > 50 THEN Some(requested_rate)
    ELSE IF score > 30 THEN Some(1200)
    ELSE IF score > 10 THEN Some(1600)
    ELSE None

\* The lower of the two rates.
CorrectedRateMin(requested_rate, min_rate) == Min(requested_rate, min_rate)

CorrectedRate(requested_rate, min_rate) == Max(requested_rate, min_rate)

\* The comparison with >= in the place of >.
ReachesHalfSalary(total_emi, monthly_salary) == 2 * total_emi >= monthly_salary

\* total_emi > customer.monthly_salary * Decimal("0.5")
ExceedsHalfSalary(total_emi, monthly_salary) == 2 * total_emi > monthly_salary

Rejection(requested_rate, corrected_rate, tenure, monthly_installment, reason) ==
    [approval |-> FALSE, requested_rate |-> requested_rate,
     corrected_rate |-> corrected_rate, tenure |-> tenure,
     monthly_installment |-> monthly_installment, reason |-> reason]

\* The "reason" of an approval, which has no such key.
NoReason == "(no reason)"

\* evaluate_loan_request after its call of _compute_credit_score.
Decide(score, active_emi, monthly_salary, loan_amount, requested_rate, tenure) ==
    IF score = 0
    THEN Rejection(requested_rate, None, tenure, None, ReasonScoreZero)
    ELSE IF MinRate(score, requested_rate) = None
    THEN Rejection(requested_rate, None, tenure, None, ReasonScoreTooLow)
    ELSE LET corrected_rate ==
                 CorrectedRate(requested_rate, Val(MinRate(score, requested_rate)))
             monthly_installment == _compute_emi(loan_amount, corrected_rate, tenure)
             total_emi == active_emi + monthly_installment
         IN  IF ExceedsHalfSalary(total_emi, monthly_salary)
             THEN Rejection(requested_rate, Some(corrected_rate), tenure,
                            Some(monthly_installment), ReasonEmi)
             ELSE [approval |-> TRUE, requested_rate |-> requested_rate,
                   corrected_rate |-> Some(corrected_rate), tenure |-> tenure,
                   monthly_installment |-> Some(monthly_installment),
                   reason |-> NoReason]

evaluate_loan_request(customer, sc, loan_amount, requested_rate, tenure) ==
    Decide(sc.score, sc.active_emi, customer.monthly_salary,
           loan_amount, requested_rate, tenure)

\* Python's truth value of a Decimal or None: None and 0 are false.
Truthy(o) == o # None /\ Val(o) # 0

\* float(x) if x else None
FloatOrNone(o) == IF Truthy(o) THEN o ELSE None

\* The body of the check-eligibility response.  An approval has no "reason".
CheckEligibilityResponse(customer_id, decision) ==
    IF ~decision.approval
    THEN [status |-> 200, customer_id |-> customer_id, approval |-> FALSE,
          interest_rate |-> decision.requested_rate,
          corrected_interest_rate |->
              FloatOrNone(decision.corrected_rate),
          tenure |-> decision.tenure,
          monthly_installment |->
              FloatOrNone(decision.monthly_installment),
          reason |-> decision.reason]
    ELSE [status |-> 200, customer_id |-> customer_id, approval |-> TRUE,
          interest_rate |-> decision.requested_rate,
          corrected_interest_rate |-> decision.corrected_rate,
          tenure |-> decision.tenure,
          monthly_installment |-> decision.monthly_installment,
          reason |-> NoReason]

\* float() of the installment without the test for None: a TypeError leaves
\* the view when the decision has no installment.
CreateLoanRejectedFloat(customer_id, decision) ==
    IF decision.monthly_installment = None
    THEN [status |-> 500, error |-> "TypeError", at |-> "response"]
    ELSE [status |-> 200, loan_id |-> None, customer_id |-> customer_id,
          loan_approved |-> FALSE, message |-> decision.reason,
          monthly_installment |-> decision.monthly_installment]

\* The body create-loan answers a refused request with.
CreateLoanRejected(customer_id, decision) ==
    [status |-> 200, loan_id |-> None, customer_id |-> customer_id,
     loan_approved |-> FALSE, message |-> decision.reason,
     monthly_installment |->
         FloatOrNone(decision.monthly_installment)]

\* The body create-loan answers an issued loan with.
CreateLoanApproved(customer_id, loan_id, decision) ==
    [status |-> 200, loan_id |-> Some(loan_id), customer_id |-> customer_id,
     loan_approved |-> TRUE, message |-> "Loan approved",
     monthly_installment |-> decision.monthly_installment]

----------------------------------------------------------------------------
(* The database and the requests.                                          *)

VARIABLES
    customers,  \* the Customer table: customer_id -> row
    loans,      \* the Loan table: the set of committed rows
    today,      \* timezone.now().date()
    proc,       \* the request each worker is serving, and how far it is
    nreq,       \* the number of requests received so far
    fn,         \* the argument and the result of a function applied alone
    hist        \* what has happened so far (a history, read by no view)

vars == <<customers, loans, today, proc, nreq, fn, hist>>

\* Bounds of the model.
MaxRequests == 2

MaxTicks == 1

\* The first day of the model and the days that pass in one step of the
\* clock: a 30-day loan issued on the first day has ended after one step, and
\* the calendar year has changed.
StartDay == 350

TickDays == 31

\* Two requests at most are served at a time.
Workers == {1, 2}

\* The requests that the serializers let through, as the views read them.
Requests ==
    [customer_id : {1, 2}, loan_amount : {6000},
     interest_rate : {0}, tenure : {1, 2}]

Views == {"check-eligibility", "create-loan"}

\* The tables as the ingestion of the customer sheet and of the loan sheet
\* leaves them: two customers, and either no loan or one loan of customer 1,
\* repaid on time so far, still running and above the customer's limit.
IngestedLoan ==
    [loan_id |-> 7, customer |-> 1, loan_amount |-> 6000, tenure |-> 2,
     interest_rate |-> 1200, monthly_repayment |-> 3045,
     emis_paid_on_time |-> 2, start_date |-> StartDay - 20,
     end_date |-> StartDay + 2 * TickDays]

InitCustomers(rows) ==
    (1 :> [monthly_salary |-> 10000, approved_limit |-> 5000,
           current_debt |-> SumField({l \in rows : l.customer = 1}, "loan_amount")])
    @@ (2 :> [monthly_salary |-> 20000, approved_limit |-> 20000,
              current_debt |-> SumField({l \in rows : l.customer = 2}, "loan_amount")])

InitLoans == {{}, {IngestedLoan}}

Idle ==
    [pc |-> "idle", view |-> "", req |-> None, customer |-> None, day |-> 0,
     qActive |-> {}, qCount |-> 0, qAll |-> {}, decision |-> None,
     next_id |-> 0, txLoan |-> None, txDebt |-> None, response |-> None]

NoFn == [op |-> "none"]

\* The history: the loan ids create-loan has returned, in the order of the
\* commits; the last answer of check-eligibility, kept for as long as the
\* tables and the date stay as they are; and the number of requests to the
\* other views (registration, the customer viewset) so far.
NoHist == [issued |-> <<>>, last |-> None, admin |-> 0]

Init ==
    /\ loans \in InitLoans
    /\ customers = InitCustomers(loans)
    /\ today = StartDay
    /\ proc = [p \in Workers |-> Idle]
    /\ nreq = 0
    /\ fn = NoFn
    /\ hist = NoHist

\* Loan.objects.filter(customer=customer)
LoansOf(customer_id) == {l \in loans : l.customer = customer_id}

\* The clock moves on.
Tick ==
    /\ today + TickDays <= StartDay + MaxTicks * TickDays
    /\ today' = today + TickDays
    /\ hist' = [hist EXCEPT !.last = None]
    /\ UNCHANGED <<customers, loans, proc, nreq, fn>>

\* A view's post() is entered with a request the serializer has validated,
\* on the first free worker, and fetches the customer:
\* Customer.objects.get(customer_id=...) gives the row as it is now, or the
\* view answers 404.
Receive(p, view, request) ==
    /\ proc[p].pc = "idle"
    /\ \A q \in Workers : q < p => proc[q].pc # "idle"
    /\ nreq < MaxRequests
    /\ nreq' = nreq + 1
    /\ proc' = [proc EXCEPT ![p] =
            IF request.customer_id \in DOMAIN customers
            THEN [Idle EXCEPT !.pc = "query_active", !.view = view,
                              !.req = Some(request),
                              !.customer = Some(customers[request.customer_id])]
            ELSE [Idle EXCEPT !.pc = "done", !.view = view,
                              !.req = Some(request),
                              !.response = Some([status |-> 404])]]
    /\ UNCHANGED <<customers, loans, today, fn, hist>>

\* Both views going on to issue an approved loan.
DecidedIssuing(s, decision) ==
    LET customer_id == Val(s.req).customer_id
        t == [s EXCEPT !.decision = Some(decision), !.day = 0, !.qActive = {},
                       !.qCount = 0, !.qAll = {}]
    IN  IF decision.approval
        THEN [t EXCEPT !.pc = "tx_read"]
        ELSE IF s.view = "check-eligibility"
        THEN [t EXCEPT !.pc = "done",
                       !.response =
                           Some(CheckEligibilityResponse(customer_id, decision))]
        ELSE [t EXCEPT !.pc = "done",
                       !.response =
                           Some(CreateLoanRejected(customer_id, decision))]

\* What the view does with the decision: check-eligibility answers,
\* create-loan answers a refusal and goes on to issue an approved loan.
Decided(s, decision) ==
    LET customer_id == Val(s.req).customer_id
        t == [s EXCEPT !.decision = Some(decision), !.day = 0, !.qActive = {},
                       !.qCount = 0, !.qAll = {}]
    IN  IF s.view = "check-eligibility"
        THEN [t EXCEPT !.pc = "done",
                       !.response =
                           Some(CheckEligibilityResponse(customer_id, decision))]
        ELSE IF ~decision.approval
        THEN [t EXCEPT !.pc = "done",
                       !.response =
                           Some(CreateLoanRejected(customer_id, decision))]
        ELSE [t EXCEPT !.pc = "tx_read"]

\* The history after worker state t is reached: an answer of
\* check-eligibility is kept with its request and the date it read, and with
\* whether the answer kept before was to the same request on the same date.
Noted(h, t, day) ==
    IF t.pc = "done" /\ t.view = "check-eligibility"
    THEN [h EXCEPT !.last =
              Some([req |-> Val(t.req), day |-> day,
                    response |-> Val(t.response),
                    again |-> IF h.last = None THEN FALSE
                              ELSE /\ Val(h.last).req = Val(t.req)
                                   /\ Val(h.last).day = day])]
    ELSE h

EvaluateWith(s, qActive, qCount, qAll, qRecent) ==
    evaluate_loan_request(
        Val(s.customer),
        _compute_credit_score(Val(s.customer), qActive, qCount, qAll, qRecent),
        Val(s.req).loan_amount, Val(s.req).interest_rate, Val(s.req).tenure)

\* _compute_credit_score reads the date and the active loans; when their
\* amounts exceed the limit it returns at once and the decision is made.
QueryActive(p) ==
    /\ proc[p].pc = "query_active"
    /\ LET s == proc[p]
           qActive == ActiveLoans(LoansOf(Val(s.req).customer_id), today)
       IN  proc' = [proc EXCEPT ![p] =
                IF GateTrips(SumField(qActive, "loan_amount"),
                             Val(s.customer).approved_limit)
                THEN Decided(s, EvaluateWith(s, qActive, 0, {}, 0))
                ELSE [s EXCEPT !.pc = "query_count", !.day = today,
                               !.qActive = qActive]]
    /\ hist' = Noted(hist, proc'[p], today)
    /\ UNCHANGED <<customers, loans, today, nreq, fn>>

\* loans.count()
QueryCount(p) ==
    /\ proc[p].pc = "query_count"
    /\ proc' = [proc EXCEPT ![p] =
            [@ EXCEPT !.pc = "query_all",
                      !.qCount = Cardinality(LoansOf(Val(proc[p].req).customer_id))]]
    /\ UNCHANGED <<customers, loans, today, nreq, fn, hist>>

\* The loans themselves, read once and iterated twice.
QueryAll(p) ==
    /\ proc[p].pc = "query_all"
    /\ proc' = [proc EXCEPT ![p] =
            [@ EXCEPT !.pc = "query_recent",
                      !.qAll = LoansOf(Val(proc[p].req).customer_id)]]
    /\ UNCHANGED <<customers, loans, today, nreq, fn, hist>>

\* The count of the loans started in the year of the date read first; the
\* score and the decision follow without another read.
QueryRecent(p) ==
    /\ proc[p].pc = "query_recent"
    /\ LET s == proc[p]
           qRecent == RecentCount(LoansOf(Val(s.req).customer_id), s.day)
       IN  proc' = [proc EXCEPT ![p] =
                Decided(s, EvaluateWith(s, s.qActive, s.qCount, s.qAll, qRecent))]
    /\ hist' = Noted(hist, proc'[p], proc[p].day)
    /\ UNCHANGED <<customers, loans, today, nreq, fn>>

----------------------------------------------------------------------------
(* Loan issuance: the block under transaction.atomic().  The database is   *)
(* read committed; what a transaction has written stays with it until it   *)
(* commits, a unique index makes an insert wait for an uncommitted row     *)
(* with the same key, and an update waits for an uncommitted update of the *)
(* same row.                                                               *)

DaysPerMonth == 30

\* The next loan id: one more than the greatest loan_id of the table, or 1.
NextLoanId(rows) ==
    IF rows = {} THEN 1
    ELSE (CHOOSE m \in {l.loan_id : l \in rows} :
              \A l \in rows : l.loan_id <= m) + 1

\* The row stored at the rate the request asked for.
NewLoanRequestedRate(s, start_date) ==
    [loan_id |-> s.next_id,
     customer |-> Val(s.req).customer_id,
     loan_amount |-> Val(s.req).loan_amount,
     tenure |-> Val(s.decision).tenure,
     interest_rate |-> Val(s.decision).requested_rate,
     monthly_repayment |-> Val(Val(s.decision).monthly_installment),
     emis_paid_on_time |-> 0,
     start_date |-> start_date,
     end_date |-> start_date + Val(s.decision).tenure * DaysPerMonth]

\* The row Loan.objects.create() is given.
NewLoan(s, start_date) ==
    [loan_id |-> s.next_id,
     customer |-> Val(s.req).customer_id,
     loan_amount |-> Val(s.req).loan_amount,
     tenure |-> Val(s.decision).tenure,
     interest_rate |-> Val(Val(s.decision).corrected_rate),
     monthly_repayment |-> Val(Val(s.decision).monthly_installment),
     emis_paid_on_time |-> 0,
     start_date |-> start_date,
     end_date |-> start_date + Val(s.decision).tenure * DaysPerMonth]

\* The debt raised by what is to be repaid.
NewDebtByRepayment(s) ==
    Val(s.customer).current_debt
    + Val(Val(s.decision).monthly_installment) * Val(s.decision).tenure

\* customer.current_debt + Decimal(data["loan_amount"]), customer being the
\* object the view fetched before the evaluation.
NewDebt(s) == Val(s.customer).current_debt + Val(s.req).loan_amount

\* The Loan table had the insert been committed at once.
KeptOnFailure(rows, txLoan) ==
    IF txLoan = None THEN rows ELSE rows \cup {Val(txLoan)}

\* The Loan table after a transaction that had written txLoan is rolled back.
RolledBack(rows, txLoan) == rows

\* The answer to a request whose exception leaves the view.
ServerError(error, at) == [status |-> 500, error |-> error, at |-> at]

\* Worker q has inserted a row with this loan_id and has not committed yet.
HoldsLoanId(q, loan_id) ==
    IF proc[q].txLoan = None THEN FALSE
    ELSE Val(proc[q].txLoan).loan_id = loan_id

\* Worker q has updated this customer's row and has not committed yet.
HoldsCustomer(q, customer_id) ==
    IF proc[q].txDebt = None THEN FALSE
    ELSE Val(proc[q].req).customer_id = customer_id

\* The transaction begins and reads the greatest loan id.
TxRead(p) ==
    /\ proc[p].pc = "tx_read"
    /\ proc' = [proc EXCEPT ![p] =
            [@ EXCEPT !.pc = "tx_insert", !.next_id = NextLoanId(loans)]]
    /\ UNCHANGED <<customers, loans, today, nreq, fn, hist>>

\* Loan.objects.create(): the insert, refused by the unique index on loan_id
\* when the table holds the id by now.
TxInsert(p) ==
    /\ proc[p].pc = "tx_insert"
    /\ \A q \in Workers \ {p} : ~HoldsLoanId(q, proc[p].next_id)
    /\ IF \E l \in loans : l.loan_id = proc[p].next_id
       THEN /\ proc' = [proc EXCEPT ![p] =
                    [@ EXCEPT !.pc = "done",
                        !.response = Some(ServerError("IntegrityError", "tx_insert"))]]
            /\ loans' = RolledBack(loans, proc[p].txLoan)
       ELSE /\ proc' = [proc EXCEPT ![p] =
                    [@ EXCEPT !.pc = "tx_save",
                              !.txLoan = Some(NewLoan(proc[p], today))]]
            /\ UNCHANGED loans
    /\ UNCHANGED <<customers, today, nreq, fn, hist>>

\* customer.save(update_fields=["current_debt"])
TxSave(p) ==
    /\ proc[p].pc = "tx_save"
    /\ \A q \in Workers \ {p} : ~HoldsCustomer(q, Val(proc[p].req).customer_id)
    /\ proc' = [proc EXCEPT ![p] =
            [@ EXCEPT !.pc = "tx_commit", !.txDebt = Some(NewDebt(proc[p]))]]
    /\ UNCHANGED <<customers, loans, today, nreq, fn, hist>>

\* The block is left: the transaction commits and the view answers.
TxCommit(p) ==
    /\ proc[p].pc = "tx_commit"
    /\ LET s == proc[p]
           customer_id == Val(s.req).customer_id
       IN  /\ loans' = loans \cup {Val(s.txLoan)}
           /\ customers' = [customers EXCEPT
                  ![customer_id].current_debt = Val(s.txDebt)]
           /\ proc' = [proc EXCEPT ![p] =
                  [s EXCEPT !.pc = "done", !.txLoan = None, !.txDebt = None,
                            !.response = Some(CreateLoanApproved(
                                customer_id, Val(s.txLoan).loan_id,
                                Val(s.decision)))]]
           /\ hist' = [hist EXCEPT !.issued = Append(@, Val(s.txLoan).loan_id),
                                   !.last = None]
    /\ UNCHANGED <<today, nreq, fn>>

\* The database fails at the insert, at the update or at the commit: the
\* exception leaves the block, which rolls the transaction back.
DbFails(p) ==
    /\ proc[p].pc \in {"tx_insert", "tx_save", "tx_commit"}
    /\ loans' = RolledBack(loans, proc[p].txLoan)
    /\ proc' = [proc EXCEPT ![p] =
            [@ EXCEPT !.pc = "done", !.txLoan = None, !.txDebt = None,
                      !.response = Some(ServerError("DatabaseError", proc[p].pc))]]
    /\ UNCHANGED <<customers, today, nreq, fn, hist>>

\* The response is sent; the worker is free again.
Finish(p) ==
    /\ proc[p].pc = "done"
    /\ proc' = [proc EXCEPT ![p] = Idle]
    /\ UNCHANGED <<customers, loans, today, nreq, fn, hist>>

Next ==
    \/ Tick
    \/ \E p \in Workers :
          \/ \E view \in Views, request \in Requests : Receive(p, view, request)
          \/ QueryActive(p)
          \/ QueryCount(p)
          \/ QueryAll(p)
          \/ QueryRecent(p)
          \/ TxRead(p)
          \/ TxInsert(p)
          \/ TxSave(p)
          \/ TxCommit(p)
          \/ DbFails(p)
          \/ Finish(p)

Spec == Init /\ [][Next]_vars

----------------------------------------------------------------------------
(* Registration, the customer viewset and the validation of a request.     *)
(* The model serves a registration or a viewset request only while no      *)
(* other request is in progress.                                           *)

MaxAdmin == 2

Quiet == \A q \in Workers : proc[q].pc = "idle"

\* One hundred thousand, in cents.
Lakh == 100000 * 100

\* int() in the place of round().
ApprovedLimitTruncated(monthly_income) ==
    PyInt(Frac(monthly_income * 36, Lakh)) * Lakh

\* round((monthly_income * 36) / Decimal("100000")) * Decimal("100000"):
\* round() of a Decimal gives the nearest integer, a tie going to the even
\* one.
ApprovedLimit(monthly_income) ==
    RoundHalfEven(monthly_income * 36, Lakh) * Lakh

\* The next customer_id: one more than the greatest of the table, or 1.
NextCustomerId(table) ==
    IF DOMAIN table = {} THEN 1
    ELSE (CHOOSE m \in DOMAIN table : \A c \in DOMAIN table : c <= m) + 1

\* RegisterView.post
Register(monthly_income) ==
    /\ Quiet
    /\ hist.admin < MaxAdmin
    /\ customers' = customers @@
           (NextCustomerId(customers) :>
                [monthly_salary |-> monthly_income,
                 approved_limit |-> ApprovedLimit(monthly_income),
                 current_debt |-> 0])
    /\ hist' = [hist EXCEPT !.admin = @ + 1, !.last = None]
    /\ UNCHANGED <<loans, today, proc, nreq, fn>>

\* CustomerViewSet is a ModelViewSet: its partial_update writes the field of
\* the request into the row (of the fields of CustomerSerializer the model
\* draws approved_limit and current_debt).
CustomerViewSetUpdate(customer_id, field, value) ==
    /\ Quiet
    /\ hist.admin < MaxAdmin
    /\ customer_id \in DOMAIN customers
    /\ customers' = [customers EXCEPT ![customer_id][field] = value]
    /\ hist' = [hist EXCEPT !.admin = @ + 1, !.last = None]
    /\ UNCHANGED <<loans, today, proc, nreq, fn>>

\* Its destroy deletes the row, and with it the customer's loans
\* (Loan.customer is on_delete=CASCADE).
CustomerViewSetDestroy(customer_id) ==
    /\ Quiet
    /\ hist.admin < MaxAdmin
    /\ customer_id \in DOMAIN customers
    /\ customers' = [c \in DOMAIN customers \ {customer_id} |-> customers[c]]
    /\ loans' = {l \in loans : l.customer # customer_id}
    /\ hist' = [hist EXCEPT !.admin = @ + 1, !.last = None]
    /\ UNCHANGED <<today, proc, nreq, fn>>

\* CheckEligibilityRequestSerializer.is_valid: customer_id and tenure have
\* min_value=1; loan_amount and interest_rate have no bound but that of
\* their digits (five digits, two of them decimals, for the rate; the twelve
\* digits of the amount are beyond the amounts of this model).
CheckEligibilityRequestSerializer(data) ==
    /\ data.customer_id >= 1
    /\ data.tenure >= 1
    /\ Abs(data.interest_rate) <= 99999

\* CreateLoanRequestSerializer.is_valid: a tenure below 1, a negative amount
\* and a negative rate are refused.
CreateLoanRequestSerializer(data) ==
    /\ data.customer_id >= 1
    /\ data.tenure >= 1
    /\ data.loan_amount >= 0
    /\ data.interest_rate >= 0
    /\ data.interest_rate <= 99999

Validated(view, data) ==
    IF view = "check-eligibility"
    THEN CheckEligibilityRequestSerializer(data)
    ELSE CreateLoanRequestSerializer(data)

\* A view's post() from its first line: is_valid(raise_exception=True)
\* answers 400 to data the serializer refuses, before anything is read.
Post(p, view, data) ==
    IF Validated(view, data)
    THEN Receive(p, view, data)
    ELSE /\ proc[p].pc = "idle"
         /\ \A q \in Workers : q < p => proc[q].pc # "idle"
         /\ nreq < MaxRequests
         /\ nreq' = nreq + 1
         /\ proc' = [proc EXCEPT ![p] =
                [Idle EXCEPT !.pc = "done", !.view = view, !.req = Some(data),
                             !.response = Some([status |-> 400])]]
         /\ UNCHANGED <<customers, loans, today, fn, hist>>

----------------------------------------------------------------------------
(* The requests served one at a time, on tables that are empty or as the   *)
(* ingestion leaves them.                                                  *)

\* The data posted to the two views: two requests of Spec, a loan of
\* 300000.00 over 12 months, a loan at 12%, and data with a negative amount,
\* a negative rate, a tenure of 0.
SeqData ==
    {[customer_id |-> 1, loan_amount |-> 6000, interest_rate |-> 0,
      tenure |-> 2],
     [customer_id |-> 2, loan_amount |-> 6000, interest_rate |-> 0,
      tenure |-> 1],
     [customer_id |-> 1, loan_amount |-> 30000000, interest_rate |-> 0,
      tenure |-> 12],
     [customer_id |-> 2, loan_amount |-> 6000, interest_rate |-> 1200,
      tenure |-> 2],
     [customer_id |-> 2, loan_amount |-> -6000, interest_rate |-> 0,
      tenure |-> 1],
     [customer_id |-> 2, loan_amount |-> 6000, interest_rate |-> -1200,
      tenure |-> 1],
     [customer_id |-> 2, loan_amount |-> 6000, interest_rate |-> 0,
      tenure |-> 0]}

\* A monthly income of 75000.00.
SeqIncomes == {7500000}

SeqFields == {"approved_limit", "current_debt"}

SeqValues == {7000}

NoCustomers == [c \in {} |-> None]

InitSeq ==
    /\ \/ loans = {} /\ customers = NoCustomers
       \/ loans \in InitLoans /\ customers = InitCustomers(loans)
    /\ today = StartDay
    /\ proc = [p \in Workers |-> Idle]
    /\ nreq = 0
    /\ fn = NoFn
    /\ hist = NoHist

\* A loan of 300000.00 is asked for by a customer without loans: its
\* installment at 12% or 16%, the rate of a lower score, is beyond the
\* integers of the model checker.
PostAlone(p, view, data) ==
    /\ Quiet
    /\ data.loan_amount > 10000 => LoansOf(data.customer_id) = {}
    /\ Post(p, view, data)

NextSeq ==
    \/ Tick
    \/ \E income \in SeqIncomes : Register(income)
    \/ \E customer_id \in {1, 2}, field \in SeqFields, value \in SeqValues :
           CustomerViewSetUpdate(customer_id, field, value)
    \/ \E customer_id \in {1, 2} : CustomerViewSetDestroy(customer_id)
    \/ \E p \in Workers :
          \/ \E view \in Views, data \in SeqData : PostAlone(p, view, data)
          \/ QueryActive(p)
          \/ QueryCount(p)
          \/ QueryAll(p)
          \/ QueryRecent(p)
          \/ TxRead(p)
          \/ TxInsert(p)
          \/ TxSave(p)
          \/ TxCommit(p)
          \/ DbFails(p)
          \/ Finish(p)

SpecSeq == InitSeq /\ [][NextSeq]_vars

----------------------------------------------------------------------------
(* Registration alone, for every income of a range.                        *)

\* The monthly incomes: the multiples of 1250.00 from -25000.00 to 75000.00.
\* 36 times 12500.00, 37500.00 and 62500.00 lie halfway between two
\* multiples of 100000.
Incomes == {i * 125000 : i \in -20..60}

InitRegister ==
    /\ loans = {}
    /\ customers \in {NoCustomers, InitCustomers({})}
    /\ today = StartDay
    /\ proc = [p \in Workers |-> Idle]
    /\ nreq = 0
    /\ fn = NoFn
    /\ hist = NoHist

NextRegister == \E income \in Incomes : Register(income)

SpecRegister == InitRegister /\ [][NextRegister]_vars

----------------------------------------------------------------------------
(* The score engine applied alone, to the loans an ingestion may leave.    *)

MaxScoreLoans == 5

\* The rows of a loan sheet: an amount of either sign; no instalment paid on
\* time, more than all of them, one of a tenure of 0, or one of two; started
\* this year and running, or started and ended before.
ScoreTemplates == 0..15

ScoreRow(i, loan_id, day) ==
    LET a == i % 2
        r == (i \div 2) % 4
        d == i \div 8
    IN  [loan_id |-> loan_id, customer |-> 1,
         loan_amount |-> IF a = 0 THEN 6000 ELSE -6000,
         tenure |-> IF r = 2 THEN 0 ELSE 2,
         interest_rate |-> 1200,
         monthly_repayment |-> IF a = 0 THEN 3045 ELSE -3045,
         emis_paid_on_time |-> IF r = 0 THEN 0 ELSE IF r = 1 THEN 3 ELSE 1,
         start_date |-> IF d = 0 THEN day - 20 ELSE day - 400,
         end_date |-> IF d = 0 THEN day + 40 ELSE day - 340]

ScoreCustomers ==
    [monthly_salary : {10000}, approved_limit : {0, 12000, 20000},
     current_debt : {0, 30000}]

InitScore ==
    /\ loans = {}
    /\ customers = InitCustomers(loans)
    /\ today = StartDay
    /\ proc = [p \in Workers |-> Idle]
    /\ nreq = 0
    /\ hist = NoHist
    /\ \E c \in ScoreCustomers :
           fn = [op |-> "score", customer |-> c, rows |-> {}, last |-> 0,
                 out |-> None]

\* One more row is ingested (the rows in the order of their kind: the score
\* does not depend on the order).
IngestRow(i) ==
    /\ Cardinality(fn.rows) < MaxScoreLoans
    /\ i >= fn.last
    /\ fn' = [fn EXCEPT
               !.rows = @ \cup {ScoreRow(i, Cardinality(fn.rows) + 1, today)},
               !.last = i, !.out = None]
    /\ UNCHANGED <<customers, loans, today, proc, nreq, hist>>

ApplyScore ==
    /\ fn.out = None
    /\ fn' = [fn EXCEPT !.out = Some(ScoreOf(fn.customer, fn.rows, today))]
    /\ UNCHANGED <<customers, loans, today, proc, nreq, hist>>

NextScore == (\E i \in ScoreTemplates : IngestRow(i)) \/ ApplyScore

SpecScore == InitScore /\ [][NextScore]_vars

----------------------------------------------------------------------------
(* The decision applied alone, to every score.                             *)

DecideInputs ==
    [score : 0..100, active_emi : {0, 3000}, monthly_salary : {9999, 10000},
     loan_amount : {4000, 6000, 10000},
     requested_rate : {-1200, 0, 1200, 1600, 2000}, tenure : {1, 2}]

InitDecide ==
    /\ loans = {}
    /\ customers = InitCustomers(loans)
    /\ today = StartDay
    /\ proc = [p \in Workers |-> Idle]
    /\ nreq = 0
    /\ hist = NoHist
    /\ \E in \in DecideInputs : fn = [op |-> "decide", in |-> in, out |-> None]

ApplyDecide ==
    /\ fn.out = None
    /\ fn' = [fn EXCEPT !.out =
               Some(Decide(fn.in.score, fn.in.active_emi, fn.in.monthly_salary,
                           fn.in.loan_amount, fn.in.requested_rate, fn.in.tenure))]
    /\ UNCHANGED <<customers, loans, today, proc, nreq, hist>>

NextDecide == ApplyDecide

SpecDecide == InitDecide /\ [][NextDecide]_vars

----------------------------------------------------------------------------
(* Properties.                                                             *)

Done(p) == proc[p].pc = "done"

Answered(p) == Done(p) /\ Val(proc[p].response).status = 200

Failed(p, error) ==
    /\ Done(p)
    /\ Val(proc[p].response).status = 500
    /\ Val(proc[p].response).error = error

InTransaction(p) == proc[p].pc \in {"tx_insert", "tx_save", "tx_commit"}

\* Worker p commits in this step.
Commits(p) == proc[p].pc = "tx_commit" /\ Answered(p)'

\* C1: the score that _compute_credit_score returns is an integer from 0 to
\* 100, for every customer and every set of loans, the empty set included.
C1_ScoreInRange ==
    (fn.op = "score" /\ fn.out # None) => Val(fn.out).score \in 0..100

C1_Witness ==
    /\ fn.op = "score"
    /\ fn.out # None
    /\ Cardinality(fn.rows) >= 3
    /\ Val(fn.out).score = 100

\* C2: whenever the loan_amount of the customer's active loans (end_date >=
\* today) sums to more than the approved_limit, the score is 0, the view
\* answers at once with the reason "credit score zero (active loans exceed
\* limit)", create-loan with loan_id null, and no loan is created.
C2_GateRejects ==
    [][\A p \in Workers :
          LET customer_id == Val(proc[p].req).customer_id
              active == {l \in LoansOf(customer_id) : l.end_date >= today}
          IN  (/\ proc[p].pc = "query_active"
               /\ proc'[p] # proc[p]
               /\ SumField(active, "loan_amount")
                      > customers[customer_id].approved_limit)
              => /\ ScoreOf(customers[customer_id], LoansOf(customer_id),
                            today).score = 0
                 /\ Answered(p)'
                 /\ loans' = loans
                 /\ IF proc[p].view = "check-eligibility"
                    THEN /\ Val(proc'[p].response).approval = FALSE
                         /\ Val(proc'[p].response).reason = ReasonScoreZero
                    ELSE /\ Val(proc'[p].response).loan_approved = FALSE
                         /\ Val(proc'[p].response).loan_id = None
                         /\ Val(proc'[p].response).message = ReasonScoreZero]_vars

\* A create-loan request refused for a loan that an earlier create-loan
\* issued, which took the customer above the limit.
C2_Witness ==
    \E p \in Workers :
        /\ Answered(p)
        /\ proc[p].view = "create-loan"
        /\ Val(proc[p].response).message = ReasonScoreZero
        /\ \E l \in loans : l.customer = Val(proc[p].req).customer_id
                            /\ l.emis_paid_on_time = 0

\* C3: in every decision that carries a corrected rate (an approval or the
\* refusal for the instalments), corrected_rate >= requested_rate.
C3_NeverCorrectedDown ==
    (fn.op = "decide" /\ fn.out # None /\ Val(fn.out).corrected_rate # None)
    => Val(Val(fn.out).corrected_rate) >= fn.in.requested_rate

C3_Witness ==
    /\ fn.op = "decide"
    /\ fn.out # None
    /\ Val(fn.out).corrected_rate # None
    /\ Val(Val(fn.out).corrected_rate) > fn.in.requested_rate
    /\ fn.in.requested_rate < 0

\* C4: after the check for a score of 0 the rate follows the slab of the
\* score: above 50 the requested rate; above 30 and at most 50 the greater of
\* the requested rate and 12%; above 10 and at most 30 the greater of the
\* requested rate and 16%; from 1 to 10 the refusal "credit score too low",
\* with no corrected rate and no installment.
C4_SlabOfScore ==
    (fn.op = "decide" /\ fn.out # None) =>
        LET d == Val(fn.out)
            score == fn.in.score
            rate == fn.in.requested_rate
        IN  /\ score = 0 => d.reason = ReasonScoreZero /\ d.corrected_rate = None
            /\ score > 50 => d.corrected_rate = Some(rate)
            /\ (30 < score /\ score <= 50) =>
                   d.corrected_rate = Some(IF rate >= 1200 THEN rate ELSE 1200)
            /\ (10 < score /\ score <= 30) =>
                   d.corrected_rate = Some(IF rate >= 1600 THEN rate ELSE 1600)
            /\ (0 < score /\ score <= 10) =>
                   /\ ~d.approval
                   /\ d.reason = ReasonScoreTooLow
                   /\ d.corrected_rate = None
                   /\ d.monthly_installment = None

C4_Witness ==
    /\ fn.op = "decide"
    /\ fn.out # None
    /\ fn.in.score \in 1..10
    /\ Val(fn.out).reason = ReasonScoreTooLow

\* C5: a request is approved only with a score above 10 and with the active
\* instalments plus the installment at the corrected rate at most half of
\* the monthly salary; above half it is refused with "emi exceeds 50% of
\* monthly salary"; exactly half is approved.
C5_HalfSalary ==
    (fn.op = "decide" /\ fn.out # None) =>
        LET d == Val(fn.out)
            in == fn.in
        IN  /\ d.approval => in.score > 10
            /\ in.score > 10 => d.monthly_installment # None
            /\ d.monthly_installment # None =>
                   LET total == in.active_emi + Val(d.monthly_installment)
                   IN  /\ Val(d.monthly_installment) =
                              _compute_emi(in.loan_amount, Val(d.corrected_rate),
                                           in.tenure)
                       /\ d.approval <=> 2 * total <= in.monthly_salary
                       /\ ~d.approval => d.reason = ReasonEmi

C5_Witness ==
    /\ fn.op = "decide"
    /\ fn.out # None
    /\ Val(fn.out).approval
    /\ 2 * (fn.in.active_emi + Val(Val(fn.out).monthly_installment))
           = fn.in.monthly_salary

\* C6: every refusal for instalments above half of the salary reports the
\* corrected rate and the installment: check-eligibility answers with
\* corrected_interest_rate and monthly_installment not null, create-loan with
\* monthly_installment not null.
C6_EmiRefusalReportsRateAndInstallment ==
    \A p \in Workers :
        Answered(p) =>
            LET r == Val(proc[p].response)
            IN  IF proc[p].view = "check-eligibility"
                THEN (~r.approval /\ r.reason = ReasonEmi) =>
                         /\ r.corrected_interest_rate # None
                         /\ r.monthly_installment # None
                ELSE (~r.loan_approved /\ r.message = ReasonEmi) =>
                         r.monthly_installment # None

\* C7: issuance is all or nothing.  A create-loan whose insert, update or
\* commit fails leaves both tables as they were; and the tables change only
\* by a commit, which adds the new loan and writes the customer's debt in
\* the same step.
C7_AllOrNothing ==
    [][/\ \A p \in Workers :
             (InTransaction(p) /\ Failed(p, "DatabaseError")')
             => (loans' = loans /\ customers' = customers)
       /\ (loans' # loans \/ customers' # customers) =>
             \E p \in Workers :
                 LET customer_id == Val(proc[p].req).customer_id
                 IN  /\ Commits(p)
                     /\ Val(proc[p].txLoan) \notin loans
                     /\ loans' = loans \cup {Val(proc[p].txLoan)}
                     /\ customers' = [customers EXCEPT
                            ![customer_id].current_debt =
                                Val(proc[p].customer).current_debt
                                + Val(proc[p].req).loan_amount]]_vars

\* A request that failed after its insert, the table holding no loan.
C7_Witness ==
    \E p \in Workers :
        /\ Failed(p, "DatabaseError")
        /\ Val(proc[p].response).at \in {"tx_save", "tx_commit"}
        /\ loans = {}

\* C8: two approved create-loan requests of one customer that run at the
\* same time lose no debt increment: each commit raises the stored
\* current_debt by the loan_amount of its request.
C8_NoLostDebtIncrement ==
    [][\A p \in Workers :
          LET customer_id == Val(proc[p].req).customer_id
          IN  Commits(p) =>
                  customers'[customer_id].current_debt =
                      customers[customer_id].current_debt
                      + Val(proc[p].req).loan_amount]_vars

\* C9: two approved create-loan requests of one customer that run at the
\* same time both commit, with distinct loan ids: none of them is refused
\* for a loan id that the other request of that customer took.
C9_BothCommitDistinctIds ==
    /\ \A l, m \in loans : l.loan_id = m.loan_id => l = m
    /\ \A p \in Workers :
           Failed(p, "IntegrityError") =>
               \A l \in loans :
                   l.loan_id = proc[p].next_id =>
                       l.customer # Val(proc[p].req).customer_id

\* C10: requests of different customers share no state: a create-loan of
\* one customer never fails because of a request of another customer.
C10_OtherCustomerNeverFailsIt ==
    \A p \in Workers :
        Failed(p, "IntegrityError") =>
            \A l \in loans :
                l.loan_id = proc[p].next_id =>
                    l.customer = Val(proc[p].req).customer_id

\* C11: with the requests served one at a time, create-loan gives the new
\* loan the id max(existing loan ids) + 1, or 1 when there is no loan; after
\* any sequence of operations the loan ids are all distinct, the ids that
\* create-loan has given grow strictly in the order of issuance, and none of
\* them is given twice.
C11_IdsSequentialNeverReused ==
    [][/\ \A p \in Workers :
             Commits(p) =>
                 Val(Val(proc'[p].response).loan_id) =
                     IF loans = {} THEN 1
                     ELSE 1 + CHOOSE m \in {l.loan_id : l \in loans} :
                                  \A l \in loans : l.loan_id <= m
       /\ \A l, m \in loans' : l.loan_id = m.loan_id => l = m
       /\ \A i, j \in DOMAIN hist'.issued :
             i < j => hist'.issued[i] < hist'.issued[j]]_vars

\* C12: an approved create-loan served alone adds exactly one loan, of the
\* customer and of the requested amount, and raises the customer's
\* current_debt by the requested loan_amount, whatever is to be repaid; on
\* tables without any loan, a customer with debt 0 whose loan of 300000.00
\* is approved is answered loan_id 1 and has current_debt 300000.00.
C12_OneLoanDebtByAmount ==
    [][\A p \in Workers :
          Commits(p) =>
              LET customer_id == Val(proc[p].req).customer_id
                  amount == Val(proc[p].req).loan_amount
                  added == loans' \ loans
              IN  /\ loans \subseteq loans'
                  /\ Cardinality(added) = 1
                  /\ \A l \in added : /\ l.customer = customer_id
                                      /\ l.loan_amount = amount
                  /\ DOMAIN customers' = DOMAIN customers
                  /\ \A c \in DOMAIN customers :
                         customers'[c] =
                             IF c = customer_id
                             THEN [customers[c] EXCEPT
                                      !.current_debt = @ + amount]
                             ELSE customers[c]
                  /\ (/\ loans = {}
                      /\ customers[customer_id].current_debt = 0
                      /\ amount = 30000000)
                     => /\ Val(proc'[p].response).loan_id = Some(1)
                        /\ customers'[customer_id].current_debt = 30000000]_vars

\* The registered customer's loan of 300000.00, and a loan at 12% whose
\* instalments sum to more than its amount.
C12_Witness ==
    /\ hist.issued = <<1, 2>>
    /\ \E p \in Workers :
           /\ Answered(p)
           /\ proc[p].view = "create-loan"
           /\ Val(proc[p].response).loan_id = Some(2)
    /\ \E l \in loans : /\ l.loan_id = 1
                        /\ l.loan_amount = 30000000
                        /\ customers[l.customer].current_debt = 30000000
    /\ \E l \in loans : /\ l.loan_id = 2
                        /\ l.monthly_repayment * l.tenure > l.loan_amount
                        /\ customers[l.customer].current_debt = l.loan_amount

\* C13: check-eligibility reads only and is idempotent.  No step of a
\* check-eligibility request changes a customer row or a loan row; and a
\* check-eligibility that answers the request of the last answered
\* check-eligibility, on the date that one read, with no change of the
\* tables in between, gives the same answer.
C13_CheckIdempotentReadOnly ==
    [][\A p \in Workers :
          /\ (/\ proc'[p] # proc[p]
              /\ "check-eligibility" \in {proc[p].view, proc'[p].view})
             => (loans' = loans /\ customers' = customers)
          /\ (/\ proc[p].pc # "done"
              /\ proc'[p].pc = "done"
              /\ proc'[p].view = "check-eligibility"
              /\ Val(proc'[p].response).status = 200
              /\ Val(hist'.last).again)
             => Val(proc'[p].response) = Val(hist.last).response]_vars

\* The same approved request, answered twice.
C13_Witness ==
    /\ hist.last # None
    /\ Val(hist.last).again
    /\ Val(hist.last).response.approval
    /\ \E p \in Workers :
           /\ Answered(p)
           /\ proc[p].view = "check-eligibility"
           /\ Val(proc[p].response) = Val(hist.last).response

\* The answer of each view to a refusal: a normal response that says so.
RefusalAnswered(view, decision, pc, response) ==
    /\ pc = "done"
    /\ response.status = 200
    /\ IF view = "check-eligibility"
       THEN response.approval = FALSE /\ response.reason = decision.reason
       ELSE /\ response.loan_approved = FALSE
            /\ response.loan_id = None
            /\ response.message = decision.reason

\* C14: the refusals of the policy (score zero, score too low, instalments
\* above half of the salary) are normal evaluations.  A request whose
\* decision is a refusal is answered at once with status 200 and approval
\* false, create-loan with loan_id null, and no exception leaves the view;
\* the tables change only by the commit of an approved request, so a refused
\* create-loan creates no loan and leaves current_debt as it is.  The
\* refusal for a score from 1 to 10, which no stored data produces, is
\* followed from the decision through both views.
C14_RefusalsAreNormalAnswers ==
    [][/\ \A p \in Workers :
             (proc'[p].decision # None /\ ~Val(proc'[p].decision).approval)
             => /\ Val(proc'[p].decision).reason
                       \in {ReasonScoreZero, ReasonScoreTooLow, ReasonEmi}
                /\ RefusalAnswered(proc'[p].view, Val(proc'[p].decision),
                                   proc'[p].pc, Val(proc'[p].response))
       /\ (loans' # loans \/ customers' # customers) =>
             \E p \in Workers : Commits(p) /\ Val(proc[p].decision).approval
       /\ \A view \in Views :
             LET d == Decide(5, 0, 10000, 6000, 0, 1)
                 s == [Idle EXCEPT !.view = view,
                                   !.req = Some([customer_id |-> 1,
                                                 loan_amount |-> 6000,
                                                 interest_rate |-> 0,
                                                 tenure |-> 1])]
                 t == Decided(s, d)
             IN  /\ d.reason = ReasonScoreTooLow
                 /\ RefusalAnswered(view, d, t.pc, Val(t.response))]_vars

\* create-loan refused for the instalments while the other worker holds an
\* answer of check-eligibility that refuses too; the tables are as they were.
C14_Witness ==
    /\ \E p \in Workers :
           /\ Answered(p)
           /\ proc[p].view = "create-loan"
           /\ Val(proc[p].decision).reason = ReasonEmi
           /\ Val(proc[p].response).loan_id = None
    /\ \E p \in Workers :
           /\ Answered(p)
           /\ proc[p].view = "check-eligibility"
           /\ ~Val(proc[p].response).approval
    /\ loans = {}
    /\ customers = InitCustomers(loans)

\* The data a validation is to refuse: a negative amount, a negative rate,
\* a tenure of 0 or less.
OutOfRange(data) ==
    data.loan_amount < 0 \/ data.interest_rate < 0 \/ data.tenure <= 0

\* C15: data out of range never reach the engine.  For a request of either
\* view with a negative loan_amount, a negative interest_rate or a tenure of
\* 0 or less no decision is made and no loan is written; and no commit of
\* create-loan lowers a current_debt or leaves it negative.
C15_OutOfRangeNeverEvaluated ==
    [][/\ \A p \in Workers :
             (proc'[p].req # None /\ OutOfRange(Val(proc'[p].req)))
             => (proc'[p].decision = None /\ proc'[p].txLoan = None)
       /\ \A p \in Workers :
             Commits(p) =>
                 LET customer_id == Val(proc[p].req).customer_id
                 IN  /\ customers'[customer_id].current_debt
                            >= customers[customer_id].current_debt
                     /\ customers'[customer_id].current_debt >= 0]_vars

\* The values of current_debt a customer is compared under.
C16_Debts == {0, 6000, 30000}

\* C16: the decision never depends on the stored current_debt.  For a
\* customer and the same customer with any other current_debt, on the same
\* loans, the score, the active amount, the active instalments and the
\* decision on every request are the same.
C16_DebtNeverRead ==
    (fn.op = "score" /\ fn.out # None) =>
        \A debt \in C16_Debts :
            LET twin == [fn.customer EXCEPT !.current_debt = debt]
                sc == ScoreOf(twin, fn.rows, today)
            IN  /\ sc = Val(fn.out)
                /\ \A tenure \in {1, 2} :
                       evaluate_loan_request(twin, sc, 6000, 0, tenure)
                       = evaluate_loan_request(fn.customer, Val(fn.out),
                                               6000, 0, tenure)

\* A customer whose current_debt is above the limit while the active loans
\* are not: the score is not 0.
C16_Witness ==
    /\ fn.op = "score"
    /\ fn.out # None
    /\ fn.customer.current_debt > fn.customer.approved_limit
    /\ fn.customer.approved_limit > 0
    /\ Val(fn.out).active_amount > 0
    /\ Val(fn.out).active_amount # fn.customer.current_debt
    /\ Val(fn.out).score > 0

\* The loans that have a repayment ratio: those with a tenure.
C17_Tenured(rows) == {l \in rows : l.tenure > 0}

RECURSIVE C17_TenureProduct(_)
C17_TenureProduct(rows) ==
    IF rows = {} THEN 1
    ELSE LET l == CHOOSE x \in rows : TRUE
         IN  l.tenure * C17_TenureProduct(rows \ {l})

\* The sum of min(emis_paid_on_time / tenure, 1) in units of 1 / product.
RECURSIVE C17_PaidTotal(_, _)
C17_PaidTotal(rows, product) ==
    IF rows = {} THEN 0
    ELSE LET l == CHOOSE x \in rows : TRUE
         IN  Min(l.emis_paid_on_time, l.tenure) * (product \div l.tenure)
             + C17_PaidTotal(rows \ {l}, product)

RECURSIVE C17_Amounts(_)
C17_Amounts(rows) ==
    IF rows = {} THEN 0
    ELSE LET l == CHOOSE x \in rows : TRUE
         IN  l.loan_amount + C17_Amounts(rows \ {l})

\* repayment + count + recency + volume + 10 as one quotient <<n, d>>, d > 0,
\* for an approved_limit that is not negative.
C17_Sum(customer, rows, day) ==
    LET tenured == C17_Tenured(rows)
        product == C17_TenureProduct(tenured)
        rd == IF tenured = {} THEN 1 ELSE product * Cardinality(tenured)
        rn == IF tenured = {} THEN 30
              ELSE 30 * C17_PaidTotal(tenured, product)
        count == (20 * Min(Cardinality(rows), 5)) \div 5
        started == Cardinality({l \in rows :
                                   l.start_date \div DaysPerYear
                                   = day \div DaysPerYear})
        recency == Max(0, 20 - 5 * Max(0, started - 1))
        limit == customer.approved_limit
        vd == IF limit = 0 THEN 1 ELSE limit
        vn == IF limit = 0 THEN 0
              ELSE Max(0, 20 * (limit - Min(C17_Amounts(rows), limit)))
    IN  <<rn * vd + (count + recency + 10) * rd * vd + vn * rd, rd * vd>>

\* round_down(clamp(q, 0, 100))
C17_RoundDownClamp(q) ==
    IF q[1] < 0 THEN 0
    ELSE IF q[1] >= 100 * q[2] THEN 100
    ELSE q[1] \div q[2]

\* C17: when the active loans do not exceed the approved_limit, the score is
\* round_down(clamp(repayment + count + recency + volume + 10, 0, 100)), with
\* repayment 30 times the average of min(emis_paid_on_time / tenure, 1) over
\* the loans that have a tenure (1 when there is none), count
\* 20 * min(loans, 5) / 5, recency max(0, 20 - 5 * max(0, started this year
\* - 1)) and volume max(0, 20 * (1 - min(total amount / approved_limit, 1)))
\* with the ratio 1 for an approved_limit of 0.
C17_ScoreFormula ==
    (/\ fn.op = "score"
     /\ fn.out # None
     /\ fn.customer.approved_limit >= 0
     /\ C17_Amounts(ActiveLoans(fn.rows, today)) <= fn.customer.approved_limit)
    => Val(fn.out).score
       = C17_RoundDownClamp(C17_Sum(fn.customer, fn.rows, today))

\* A sum that is not a whole number and is not clamped, over loans of which
\* one has half of its instalments paid on time and two started this year.
C17_Witness ==
    /\ fn.op = "score"
    /\ fn.out # None
    /\ fn.customer.approved_limit > 0
    /\ C17_Amounts(ActiveLoans(fn.rows, today)) <= fn.customer.approved_limit
    /\ \E l \in fn.rows : l.tenure = 2 /\ l.emis_paid_on_time = 1
    /\ Cardinality({l \in fn.rows : YearOf(l.start_date) = YearOf(today)}) >= 2
    /\ LET q == C17_Sum(fn.customer, fn.rows, today)
       IN  /\ q[1] % q[2] # 0
           /\ q[1] > 0
           /\ q[1] < 100 * q[2]
    /\ Val(fn.out).score = C17_RoundDownClamp(C17_Sum(fn.customer, fn.rows, today))

\* C18: a customer without loans has a score above 50.  The decision on a
\* request of a customer without loans is not a refusal for the score, keeps
\* the requested rate as the corrected rate, and, when the installment is at
\* most half of the monthly salary, is an approval with a positive
\* installment.
C18_NoLoansApproved ==
    [][\A p \in Workers :
          (/\ proc[p].pc # "done"
           /\ proc[p].decision = None
           /\ proc'[p].decision # None
           /\ LoansOf(Val(proc'[p].req).customer_id) = {})
          => LET decision == Val(proc'[p].decision)
                 salary == customers[Val(proc'[p].req).customer_id].monthly_salary
             IN  /\ decision.reason \notin {ReasonScoreZero, ReasonScoreTooLow}
                 /\ decision.corrected_rate = Some(decision.requested_rate)
                 /\ decision.monthly_installment # None
                 /\ IF decision.monthly_installment = None THEN FALSE
                    ELSE 2 * Val(decision.monthly_installment) <= salary
                         => /\ decision.approval
                            /\ Val(decision.monthly_installment) > 0]_vars

\* C19: a registration stores approved_limit = round(36 * monthly_income /
\* 100000) * 100000.  The row it adds has an approved_limit that is a
\* multiple of 100000 and differs from 36 times the monthly income by at
\* most 50000, and a current_debt of 0; a monthly income of 75000 gives
\* 2700000; the customer registered into an empty table has customer_id 1;
\* and the rows of the other customers stay as they are.
C19_RegistrationLimit ==
    [][DOMAIN customers' # DOMAIN customers =>
          /\ DOMAIN customers \subseteq DOMAIN customers'
          /\ Cardinality(DOMAIN customers' \ DOMAIN customers) = 1
          /\ \A c \in DOMAIN customers : customers'[c] = customers[c]
          /\ \A c \in DOMAIN customers' \ DOMAIN customers :
                LET row == customers'[c]
                IN  /\ row.approved_limit % (100000 * 100) = 0
                    /\ Abs(row.approved_limit - 36 * row.monthly_salary)
                           <= 50000 * 100
                    /\ row.monthly_salary = 75000 * 100
                           => row.approved_limit = 2700000 * 100
                    /\ row.current_debt = 0
                    /\ DOMAIN customers = {} => c = 1]_vars

\* Two registrations into an empty table: an income of 12500, 36 times which
\* lies halfway between 400000 and 500000, then an income of 75000.
C19_Witness ==
    /\ hist.admin = 2
    /\ DOMAIN customers = {1, 2}
    /\ customers[1] = [monthly_salary |-> 12500 * 100,
                       approved_limit |-> 400000 * 100, current_debt |-> 0]
    /\ customers[2] = [monthly_salary |-> 75000 * 100,
                       approved_limit |-> 2700000 * 100, current_debt |-> 0]

\* C20: the stored records follow the lifecycle.  In every step the loans
\* there are stay as they are and at most one loan is added, by the commit
\* of an approved create-loan; every customer stays, and of a customer's
\* fields only current_debt changes, and only in the commit of an approved
\* create-loan of that customer.
C20_RecordLifecycle ==
    [][/\ loans \subseteq loans'
       /\ Cardinality(loans' \ loans) <= 1
       /\ loans' # loans => \E p \in Workers : Commits(p)
       /\ \A c \in DOMAIN customers :
             /\ c \in DOMAIN customers'
             /\ IF c \in DOMAIN customers'
                THEN /\ customers'[c].monthly_salary = customers[c].monthly_salary
                     /\ customers'[c].approved_limit = customers[c].approved_limit
                     /\ customers'[c].current_debt # customers[c].current_debt
                        => \E p \in Workers :
                               /\ Commits(p)
                               /\ Val(proc[p].req).customer_id = c
                ELSE FALSE]_vars

\* The loan ids create-loan has returned so far.
C21_Issued == {hist.issued[i] : i \in DOMAIN hist.issued}

\* C21: the loan create-loan persists.  The row written in the transaction
\* has start_date = today, end_date = start_date + 30 * tenure days,
\* emis_paid_on_time = 0, the corrected rate of the decision as its
\* interest_rate and the installment of the decision as its
\* monthly_repayment, and the commit adds that row and no other; and from
\* its start_date to its end_date the loan is among the active loans that
\* an evaluation of its customer reads.
C21_PersistedLoan ==
    [][\A p \in Workers :
          /\ (proc[p].txLoan = None /\ proc'[p].txLoan # None)
             => LET l == Val(proc'[p].txLoan)
                    request == Val(proc[p].req)
                    decision == Val(proc[p].decision)
                IN  /\ l.customer = request.customer_id
                    /\ l.loan_amount = request.loan_amount
                    /\ l.tenure = request.tenure
                    /\ l.tenure >= 1
                    /\ l.start_date = today
                    /\ l.end_date = l.start_date + 30 * l.tenure
                    /\ l.end_date > today
                    /\ l.emis_paid_on_time = 0
                    /\ decision.approval
                    /\ l.interest_rate = Val(decision.corrected_rate)
                    /\ l.interest_rate >= request.interest_rate
                    /\ l.monthly_repayment = Val(decision.monthly_installment)
          /\ Commits(p) => loans' = loans \cup {Val(proc[p].txLoan)}
          /\ (proc[p].pc = "query_active" /\ proc'[p].pc # "query_active")
             => \A l \in loans :
                    (/\ l.loan_id \in C21_Issued
                     /\ l.customer = Val(proc[p].req).customer_id
                     /\ l.start_date <= today
                     /\ today <= l.start_date + 30 * l.tenure)
                    => IF proc'[p].pc = "query_count"
                       THEN l \in proc'[p].qActive
                       ELSE Val(proc'[p].decision).reason = ReasonScoreZero]_vars

\* Two loans issued to a customer on one day: the evaluation for the second
\* has counted the first, and the second is stored at the corrected rate of
\* 12%, not at the requested rate of 0, with the installment of that rate.
C21_Witness ==
    /\ Len(hist.issued) = 2
    /\ \E p \in Workers :
           /\ Answered(p)
           /\ proc[p].view = "create-loan"
           /\ Val(proc[p].req).interest_rate = 0
           /\ \E l \in loans :
                  /\ Val(proc[p].response).loan_id = Some(l.loan_id)
                  /\ l.interest_rate = 1200
                  /\ l.monthly_repayment = 3045
                  /\ Val(proc[p].response).monthly_installment = Some(3045)
                  /\ l.start_date = today
                  /\ l.end_date = today + 60
                  /\ \E k \in loans : /\ k.customer = l.customer
                                      /\ k.loan_id < l.loan_id
                                      /\ k.loan_id \in C21_Issued

\* Results loans.count() and the count of the loans of the year may have
\* when loans are committed between the queries of one evaluation: the
\* least counts, and the count of the year from which its term is 0.
C22_Counts == {0, 1}

C22_Recents == {0, 5}

\* C22: the score is 0 exactly when the amounts of the active loans sum to
\* more than the approved_limit, a sum equal to the limit included in the
\* other case; when they do not, the score is at least 14, whatever the two
\* counts read; so no score is from 1 to 10 and no request is refused with
\* "credit score too low".
C22_ZeroOnlyByGate ==
    (fn.op = "score" /\ fn.out # None) =>
        LET active == C17_Amounts({l \in fn.rows : l.end_date >= today})
            tripped == active > fn.customer.approved_limit
            ok(sc) ==
                /\ sc.score = 0 <=> tripped
                /\ ~tripped => sc.score >= 14
                /\ sc.score \notin 1..10
                /\ evaluate_loan_request(fn.customer, sc, 6000, 0, 2).reason
                   # ReasonScoreTooLow
        IN  /\ ok(Val(fn.out))
            /\ \A qCount \in C22_Counts, qRecent \in C22_Recents :
                   ok(_compute_credit_score(fn.customer,
                                            ActiveLoans(fn.rows, today),
                                            qCount, fn.rows, qRecent))

\* Two active loans whose amounts sum to the limit exactly: the score is 33,
\* and 14 were the loans counted as 1 and those of the year as 5.
C22_Witness ==
    /\ fn.op = "score"
    /\ fn.out # None
    /\ fn.customer.approved_limit = 12000
    /\ Cardinality({l \in fn.rows : l.end_date >= today}) = 2
    /\ C17_Amounts({l \in fn.rows : l.end_date >= today}) = 12000
    /\ Val(fn.out).score = 33
    /\ _compute_credit_score(fn.customer, ActiveLoans(fn.rows, today),
                             1, fn.rows, 5).score = 14

\* C23: no loan is committed on a stale decision.  When create-loan
\* commits, the customer's loans stored at that moment and active on that
\* day have amounts that sum to no more than the approved_limit, and
\* instalments that, with the installment of the new loan, sum to no more
\* than half of the monthly salary.
C23_CommitNotStale ==
    [][\A p \in Workers :
          Commits(p) =>
              LET customer_id == Val(proc[p].req).customer_id
                  stored == {l \in loans : /\ l.customer = customer_id
                                           /\ l.end_date >= today}
                  installment == Val(proc[p].txLoan).monthly_repayment
              IN  /\ C17_Amounts(stored) <= customers[customer_id].approved_limit
                  /\ 2 * (SumField(stored, "monthly_repayment") + installment)
                         <= customers[customer_id].monthly_salary]_vars

====
